---- MODULE Spec2Model ----
(***************************************************************************)
(* Model of scripts/wrapper_lilypond.py: the driver run() that pre-cleans  *)
(* the two output files, runs lilypond through the output-gated runner     *)
(* system_check_output, and optionally post-processes the pdf with         *)
(* pdf2ps/ps2pdf (size reduction) and qpdf (linearization).                *)
(*                                                                         *)
(* The filesystem is a function from the four paths the driver touches to  *)
(* a file record.  A child process is an input of the model: whether it     *)
(* could be started, its exit status, its (decoded) stdout and stderr text *)
(* and which of its output paths it wrote before exiting.  The captured    *)
(* bytes are taken to be decodable text.                                   *)
(***************************************************************************)
EXTENDS Integers, Sequences, FiniteSets, TLC

\* ---------------------------------------------------------------- bounds
\* child exit statuses range over 0..MaxStatus
MaxStatus == 2

\* ------------------------------------------------------------ filesystem
PS == "ps"
PDF == "pdf"
TmpRed == "tmp_red"
TmpLin == "tmp_lin"
Artifacts == {PS, PDF}
Paths == {PS, PDF, TmpRed, TmpLin}

\* 0o0444, the mode given to os.chmod
ReadOnly == 4 * 64 + 4 * 8 + 4
\* 0o0600, the mode of a file made by tempfile.NamedTemporaryFile
ModeTemp == 6 * 64
\* 0o0644, the mode of a file freshly created by a child process
ModeNew == 6 * 64 + 4 * 8 + 4
\* 0o0755, the mode of a directory
ModeDir == 7 * 64 + 5 * 8 + 5

NoFile == [kind |-> "none", content |-> "", mode |-> 0, origin |-> ""]
MkFile(c, m, o) == [kind |-> "file", content |-> c, mode |-> m, origin |-> o]
Dir == [kind |-> "dir", content |-> "", mode |-> ModeDir, origin |-> "prior"]

\* what can sit at an artifact path when the driver starts: nothing, a file
\* left by an earlier run (read-only after a success, writable after a
\* crash), or something that is not a regular file
PriorStates == {NoFile, MkFile("stale", ReadOnly, "prior"),
                MkFile("stale", ModeNew, "prior"), Dir}

\* os.path.isfile
IsFile(f, p) == f[p].kind = "file"

\* os.unlink: removes a regular file, raises OSError otherwise
Unlink(f, p) ==
  IF f[p].kind = "file"
    THEN [fs |-> [f EXCEPT ![p] = NoFile], err |-> FALSE]
    ELSE [fs |-> f, err |-> TRUE]

\* variant: the call succeeds on an existing path but the mode stays
Chmod_KeepsMode(f, p, m) ==
  IF f[p].kind = "none"
    THEN [fs |-> f, err |-> TRUE]
    ELSE [fs |-> f, err |-> FALSE]

\* os.chmod: sets the mode of whatever exists at p, raises OSError if nothing
Chmod(f, p, m) ==
  IF f[p].kind = "none"
    THEN [fs |-> f, err |-> TRUE]
    ELSE [fs |-> [f EXCEPT ![p].mode = m], err |-> FALSE]

\* variant: the file is copied and the source is left behind
Move_Copy(f, src, dst) == [f EXCEPT ![dst] = f[src]]

\* shutil.move(src, dst) with dst absent: the file at src is now at dst
Move(f, src, dst) == [f EXCEPT ![dst] = f[src], ![src] = NoFile]

\* tempfile.NamedTemporaryFile: a fresh, empty file at a fresh path
MkTemp(f, p) == [f EXCEPT ![p] = MkFile("", ModeTemp, p)]

\* variant: the temporary file is closed but not deleted
CloseTemp_Keeps(f, p) == f

\* leaving `with tempfile.NamedTemporaryFile() as temp` (delete=True)
CloseTemp(f, p) == [f EXCEPT ![p] = NoFile]

\* a child process writing path p: creates the file, or overwrites the
\* content of an existing one; it cannot write over a directory
WriteOne(f, p, cmd) ==
  IF f[p].kind = "dir" THEN f[p]
  ELSE IF f[p].kind = "file" THEN [f[p] EXCEPT !.content = cmd]
  ELSE MkFile(cmd, ModeNew, p)

ChildWrites(f, cmd, wrote) ==
  [p \in Paths |-> IF p \in wrote THEN WriteOne(f, p, cmd) ELSE f[p]]

\* ------------------------------------------------------------ diagnostics
\* one entry of the event trace: a line printed to sys.stderr, or a
\* filesystem / process event
Line(k, t, s) == [kind |-> k, text |-> t, status |-> s]

PrintKinds == {"arguments", "running", "stdout_label", "stdout",
               "stderr_label", "stderr", "rc", "cmd", "exiting", "traceback"}

CapturedKinds == {"stdout_label", "stdout", "stderr_label", "stderr", "rc", "cmd"}

IsPrint(e) == e.kind \in PrintKinds

Texts == {"", "txt"}

VARIABLES cfg, fs, pc, exit_status, how, trace, last, clean, produced

vars == <<cfg, fs, pc, exit_status, how, trace, last, clean, produced>>

\* --------------------------------------------------------------- ConfigAll
Flags == {"do_ps", "do_pdf", "do_debug", "unlink_ps", "do_qpdf", "do_pdfred",
          "stop_on_output"}

ConfigAll == [Flags -> BOOLEAN]

Defaults == [fl \in Flags |-> fl \in {"do_ps", "do_pdf", "do_qpdf", "stop_on_output"}]

\* ------------------------------------------------- remove_outputs_if_exist
\* variant: the file is unlinked without asking whether it is there
RemoveOne_NoCheck(r, p) ==
  LET u == Unlink(r.fs, p)
  IN [fs |-> u.fs, err |-> r.err \/ u.err,
      trace |-> Append(r.trace, Line("unlink", p, 0))]

\* one `if os.path.isfile(p): os.unlink(p)`; r carries the filesystem, the
\* error flag and the unlink events so far
RemoveOne(r, p) ==
  IF IsFile(r.fs, p)
    THEN LET u == Unlink(r.fs, p)
         IN [fs |-> u.fs, err |-> r.err \/ u.err,
             trace |-> Append(r.trace, Line("unlink", p, 0))]
    ELSE r

\* variant: only the ps is looked at
RemoveOutputs_PsOnly(f) ==
  RemoveOne([fs |-> f, err |-> FALSE, trace |-> <<>>], PS)

\* remove_outputs_if_exist: the ps, then the pdf
RemoveOutputs(f) ==
  RemoveOne(RemoveOne([fs |-> f, err |-> FALSE, trace |-> <<>>], PS), PDF)

\* ------------------------------------------------------------ print_outputs
\* variant: the return code line is left out
PrintOutputs_NoStatus(o, cmd) ==
  (IF o.out # "" THEN <<Line("stdout_label", "", 0), Line("stdout", o.out, 0)>>
                 ELSE <<>>)
  \o (IF o.err # "" THEN <<Line("stderr_label", "", 0), Line("stderr", o.err, 0)>>
                    ELSE <<>>)
  \o <<Line("cmd", cmd, 0)>>

PrintOutputs(o, cmd) ==
  (IF o.out # "" THEN <<Line("stdout_label", "", 0), Line("stdout", o.out, 0)>>
                 ELSE <<>>)
  \o (IF o.err # "" THEN <<Line("stderr_label", "", 0), Line("stderr", o.err, 0)>>
                    ELSE <<>>)
  \o <<Line("rc", "", o.status), Line("cmd", cmd, 0)>>

\* ------------------------------------------------------ system_check_output
\* the outcomes of one child: not started at all (Popen raises OSError), or
\* started, with an exit status, two captured texts and the paths it wrote
Outcomes(outs) ==
  {[started |-> FALSE, status |-> 0, out |-> "", err |-> "", wrote |-> {}]}
  \cup [started : {TRUE}, status : 0..MaxStatus, out : Texts, err : Texts,
        wrote : SUBSET outs]

\* variant: debug only logs, it does not force the failure path
GateFails_NoDebug(c, o) ==
  o.status # 0 \/ (c["stop_on_output"] /\ (o.out # "" \/ o.err # ""))

\* variant: the gate looks at the exit status and the debug flag only
GateFails_IgnoresOutput(c, o) == c["do_debug"] \/ o.status # 0

\* the condition of the `if` that guards the failure path
GateFails(c, o) ==
  c["do_debug"] \/ o.status # 0
    \/ (c["stop_on_output"] /\ (o.out # "" \/ o.err # ""))

\* variant: the failure path removes the artifacts before it prints
SystemCheckOutput_DeleteFirst(c, f, cmd, o) ==
  LET dbg == IF c["do_debug"] THEN <<Line("running", cmd, 0)>> ELSE <<>>
  IN IF ~o.started
       THEN [result |-> "oserror", fs |-> f, trace |-> dbg]
       ELSE LET f1 == ChildWrites(f, cmd, o.wrote)
                tr1 == dbg \o <<Line("launch", cmd, 0)>>
            IN IF GateFails(c, o)
                 THEN LET r == RemoveOutputs(f1)
                      IN [result |-> "exit", fs |-> r.fs,
                          trace |-> tr1 \o r.trace \o PrintOutputs(o, cmd)]
                 ELSE [result |-> "return", fs |-> f1, trace |-> tr1]

\* variant: the failure path prints and cleans up but returns to the caller
SystemCheckOutput_NoExit(c, f, cmd, o) ==
  LET dbg == IF c["do_debug"] THEN <<Line("running", cmd, 0)>> ELSE <<>>
  IN IF ~o.started
       THEN [result |-> "oserror", fs |-> f, trace |-> dbg]
       ELSE LET f1 == ChildWrites(f, cmd, o.wrote)
                tr1 == dbg \o <<Line("launch", cmd, 0)>>
            IN IF GateFails(c, o)
                 THEN LET r == RemoveOutputs(f1)
                      IN [result |-> "return", fs |-> r.fs,
                          trace |-> tr1 \o PrintOutputs(o, cmd) \o r.trace]
                 ELSE [result |-> "return", fs |-> f1, trace |-> tr1]

\* result: "oserror" (Popen raised), "exit" (sys.exit(1) was called) or
\* "return"; fs and trace after the call
SystemCheckOutput(c, f, cmd, o) ==
  LET dbg == IF c["do_debug"] THEN <<Line("running", cmd, 0)>> ELSE <<>>
  IN IF ~o.started
       THEN [result |-> "oserror", fs |-> f, trace |-> dbg]
       ELSE LET f1 == ChildWrites(f, cmd, o.wrote)
                tr1 == dbg \o <<Line("launch", cmd, 0)>>
            IN IF GateFails(c, o)
                 THEN LET r == RemoveOutputs(f1)
                      IN [result |-> "exit", fs |-> r.fs,
                          trace |-> tr1 \o PrintOutputs(o, cmd) \o r.trace]
                 ELSE [result |-> "return", fs |-> f1, trace |-> tr1]

\* a child that started, exited 0 and wrote nothing to stdout or stderr
Clean(o) == o.started /\ o.status = 0 /\ o.out = "" /\ o.err = ""

\* the output files a command line asks its program for: lilypond gets
\* --ps and --pdf by the flags, the other three name one output path
Asked(c, cmd) ==
  IF cmd = "lilypond"
    THEN {p \in Artifacts : (p = PS /\ c["do_ps"]) \/ (p = PDF /\ c["do_pdf"])}
  ELSE IF cmd = "pdf2ps" THEN {TmpRed}
  ELSE IF cmd = "ps2pdf" THEN {PDF}
  ELSE {TmpLin}

\* the value of `last` before any call
NoCall ==
  [cmd |-> "", started |-> FALSE, status |-> 0, out |-> "", err |-> "",
   wrote |-> {}, result |-> ""]

\* history: the latest call of system_check_output, its child's outcome and
\* how the call ended.  clean: every call so far started a child that was
\* Clean; produced: every child so far wrote exactly the files Asked of it
CallRecord(cmd, o, res) ==
  [cmd |-> cmd, started |-> o.started, status |-> o.status, out |-> o.out,
   err |-> o.err, wrote |-> o.wrote, result |-> res]

\* ------------------------------------------------------- process endings
\* the process terminates with the given status
Exit(f, tr, status, cause) ==
  /\ fs' = f
  /\ trace' = tr \o <<Line("exit", cause, status)>>
  /\ exit_status' = status
  /\ how' = cause
  /\ pc' = "exited"

\* an exception nobody catches: the interpreter prints the traceback and
\* exits with status 1
Uncaught(f, tr) == Exit(f, tr \o <<Line("traceback", "", 0)>>, 1, "uncaught")

\* variant: the handler reports and exits without removing the outputs
CaughtOSError_NoRemove(f, tr) ==
  Exit(f, tr \o <<Line("exiting", "", 0)>>, 1, "caught")

\* variant: the handler cleans up and exits without its report line
CaughtOSError_NoReport(f, tr) ==
  LET r == RemoveOutputs(f)
  IN Exit(r.fs, tr \o r.trace, 1, "caught")

\* the handler `except OSError` of run()
CaughtOSError(f, tr) ==
  LET r == RemoveOutputs(f)
  IN Exit(r.fs, tr \o r.trace \o <<Line("exiting", "", 0)>>, 1, "caught")

Goto(f, tr, next) ==
  /\ fs' = f
  /\ trace' = tr
  /\ pc' = next
  /\ UNCHANGED <<exit_status, how>>

\* ------------------------------------------------------------------- Init
Init ==
  /\ cfg \in ConfigAll
  /\ \E a \in PriorStates, b \in PriorStates :
       fs = [p \in Paths |-> IF p = PS THEN a ELSE IF p = PDF THEN b ELSE NoFile]
  /\ pc = "start"
  /\ exit_status = 0
  /\ how = ""
  /\ trace = <<>>
  /\ last = NoCall
  /\ clean = TRUE
  /\ produced = TRUE

\* ------------------------------------------------------------------ run()
\* debug print of the arguments, then the pre-clean
Start ==
  /\ pc = "start"
  /\ LET dbg == IF cfg["do_debug"] THEN <<Line("arguments", "", 0)>> ELSE <<>>
         r == RemoveOutputs(fs)
     IN Goto(r.fs, trace \o dbg \o r.trace, "lilypond")
  /\ UNCHANGED <<cfg, last, clean, produced>>

\* system_check_output(args) for lilypond inside the try block
RunLilypond ==
  /\ pc = "lilypond"
  /\ \E o \in Outcomes({PS, PDF}) :
       LET s == SystemCheckOutput(cfg, fs, "lilypond", o)
       IN /\ last' = CallRecord("lilypond", o, s.result)
          /\ clean' = (clean /\ Clean(o))
          /\ produced' = (produced /\ o.wrote = Asked(cfg, "lilypond"))
          /\ IF s.result = "oserror" THEN CaughtOSError(s.fs, trace \o s.trace)
             ELSE IF s.result = "exit" THEN Exit(s.fs, trace \o s.trace, 1, "gate")
             ELSE Goto(s.fs, trace \o s.trace, "chmod")
  /\ UNCHANGED cfg

\* chmod the results, inside the try block
ChmodResults ==
  /\ pc = "chmod"
  /\ LET c1 == IF cfg["do_ps"] THEN Chmod(fs, PS, ReadOnly)
                               ELSE [fs |-> fs, err |-> FALSE]
         t1 == IF cfg["do_ps"] /\ ~c1.err THEN <<Line("chmod", PS, 0)>> ELSE <<>>
         c2 == IF cfg["do_pdf"] THEN Chmod(c1.fs, PDF, ReadOnly)
                                ELSE [fs |-> c1.fs, err |-> FALSE]
         t2 == IF cfg["do_pdf"] /\ ~c2.err THEN <<Line("chmod", PDF, 0)>> ELSE <<>>
     IN IF c1.err THEN CaughtOSError(c1.fs, trace)
        ELSE IF c2.err THEN CaughtOSError(c2.fs, trace \o t1)
        ELSE Goto(c2.fs, trace \o t1 \o t2, "pdfred")
  /\ UNCHANGED <<cfg, last, clean, produced>>

\* if ConfigAll.do_pdfred: with tempfile.NamedTemporaryFile() as temp
PdfRedEnter ==
  /\ pc = "pdfred"
  /\ IF cfg["do_pdfred"]
       THEN Goto(MkTemp(fs, TmpRed), trace \o <<Line("mktemp", TmpRed, 0)>>, "pdf2ps")
       ELSE Goto(fs, trace, "linearize")
  /\ UNCHANGED <<cfg, last, clean, produced>>

\* system_check_output(["pdf2ps", ..., pdf, temp.name]); leaving the with
\* block by an exception deletes the temporary file
RunPdf2ps ==
  /\ pc = "pdf2ps"
  /\ \E o \in Outcomes({TmpRed}) :
       LET s == SystemCheckOutput(cfg, fs, "pdf2ps", o)
           closed == trace \o s.trace \o <<Line("unlink", TmpRed, 0)>>
       IN /\ last' = CallRecord("pdf2ps", o, s.result)
          /\ clean' = (clean /\ Clean(o))
          /\ produced' = (produced /\ o.wrote = Asked(cfg, "pdf2ps"))
          /\ IF s.result = "oserror" THEN Uncaught(CloseTemp(s.fs, TmpRed), closed)
             ELSE IF s.result = "exit"
               THEN Exit(CloseTemp(s.fs, TmpRed), closed, 1, "gate")
             ELSE Goto(s.fs, trace \o s.trace, "red_unlink")
  /\ UNCHANGED cfg

\* os.unlink(ConfigAll.pdf) of the reduction stage
RedUnlinkPdf ==
  /\ pc = "red_unlink"
  /\ LET u == Unlink(fs, PDF)
     IN IF u.err
          THEN Uncaught(CloseTemp(u.fs, TmpRed), trace \o <<Line("unlink", TmpRed, 0)>>)
          ELSE Goto(u.fs, trace \o <<Line("unlink", PDF, 0)>>, "ps2pdf")
  /\ UNCHANGED <<cfg, last, clean, produced>>

\* system_check_output(["ps2pdf", temp.name, pdf]) and the end of the with
\* block, which deletes the temporary file on every way out
RunPs2pdf ==
  /\ pc = "ps2pdf"
  /\ \E o \in Outcomes({PDF}) :
       LET s == SystemCheckOutput(cfg, fs, "ps2pdf", o)
           closed == trace \o s.trace \o <<Line("unlink", TmpRed, 0)>>
       IN /\ last' = CallRecord("ps2pdf", o, s.result)
          /\ clean' = (clean /\ Clean(o))
          /\ produced' = (produced /\ o.wrote = Asked(cfg, "ps2pdf"))
          /\ IF s.result = "oserror" THEN Uncaught(CloseTemp(s.fs, TmpRed), closed)
             ELSE IF s.result = "exit"
               THEN Exit(CloseTemp(s.fs, TmpRed), closed, 1, "gate")
             ELSE Goto(CloseTemp(s.fs, TmpRed), closed, "linearize")
  /\ UNCHANGED cfg

\* variant: without linearization the driver goes back to the reduction
LinEnter_LoopsBack ==
  /\ pc = "linearize"
  /\ IF cfg["do_qpdf"]
       THEN Goto(MkTemp(fs, TmpLin), trace \o <<Line("mktemp", TmpLin, 0)>>, "qpdf")
       ELSE Goto(fs, trace, "pdfred")
  /\ UNCHANGED <<cfg, last, clean, produced>>

\* variant: the linearization stage is entered whatever do_qpdf says
LinEnter_Always ==
  /\ pc = "linearize"
  /\ Goto(MkTemp(fs, TmpLin), trace \o <<Line("mktemp", TmpLin, 0)>>, "qpdf")
  /\ UNCHANGED <<cfg, last, clean, produced>>

\* if ConfigAll.do_qpdf: with tempfile.NamedTemporaryFile(delete=False) as temp
LinEnter ==
  /\ pc = "linearize"
  /\ IF cfg["do_qpdf"]
       THEN Goto(MkTemp(fs, TmpLin), trace \o <<Line("mktemp", TmpLin, 0)>>, "qpdf")
       ELSE Goto(fs, trace, "finalize")
  /\ UNCHANGED <<cfg, last, clean, produced>>

\* system_check_output(["qpdf", "--linearize", pdf, temp.name]); the
\* temporary file was made with delete=False, so leaving the with block
\* only closes it
RunQpdf ==
  /\ pc = "qpdf"
  /\ \E o \in Outcomes({TmpLin}) :
       LET s == SystemCheckOutput(cfg, fs, "qpdf", o)
       IN /\ last' = CallRecord("qpdf", o, s.result)
          /\ clean' = (clean /\ Clean(o))
          /\ produced' = (produced /\ o.wrote = Asked(cfg, "qpdf"))
          /\ IF s.result = "oserror" THEN Uncaught(s.fs, trace \o s.trace)
             ELSE IF s.result = "exit" THEN Exit(s.fs, trace \o s.trace, 1, "gate")
             ELSE Goto(s.fs, trace \o s.trace, "lin_swap")
  /\ UNCHANGED cfg

\* os.unlink(ConfigAll.pdf); shutil.move(temp.name, ConfigAll.pdf)
LinSwap ==
  /\ pc = "lin_swap"
  /\ LET u == Unlink(fs, PDF)
     IN IF u.err
          THEN Uncaught(u.fs, trace)
          ELSE Goto(Move(u.fs, TmpLin, PDF),
                    trace \o <<Line("unlink", PDF, 0), Line("move", TmpLin, 0)>>,
                    "finalize")
  /\ UNCHANGED <<cfg, last, clean, produced>>

\* variant: the finalization handles the ps and forgets the pdf
Finalize_NoPdfChmod ==
  /\ pc = "finalize"
  /\ LET f1 == IF IsFile(fs, PS)
                 THEN IF cfg["unlink_ps"] THEN Unlink(fs, PS).fs
                                          ELSE Chmod(fs, PS, ReadOnly).fs
                 ELSE fs
         t1 == IF IsFile(fs, PS)
                 THEN IF cfg["unlink_ps"] THEN <<Line("unlink", PS, 0)>>
                                          ELSE <<Line("chmod", PS, 0)>>
                 ELSE <<>>
     IN Exit(f1, trace \o t1, 0, "normal")
  /\ UNCHANGED <<cfg, last, clean, produced>>

\* remove the postscript file or chmod it, chmod the pdf file, return
Finalize ==
  /\ pc = "finalize"
  /\ LET f1 == IF IsFile(fs, PS)
                 THEN IF cfg["unlink_ps"] THEN Unlink(fs, PS).fs
                                          ELSE Chmod(fs, PS, ReadOnly).fs
                 ELSE fs
         t1 == IF IsFile(fs, PS)
                 THEN IF cfg["unlink_ps"] THEN <<Line("unlink", PS, 0)>>
                                          ELSE <<Line("chmod", PS, 0)>>
                 ELSE <<>>
         f2 == IF IsFile(f1, PDF) THEN Chmod(f1, PDF, ReadOnly).fs ELSE f1
         t2 == IF IsFile(f1, PDF) THEN <<Line("chmod", PDF, 0)>> ELSE <<>>
     IN Exit(f2, trace \o t1 \o t2, 0, "normal")
  /\ UNCHANGED <<cfg, last, clean, produced>>

Next ==
  \/ Start
  \/ RunLilypond
  \/ ChmodResults
  \/ PdfRedEnter
  \/ RunPdf2ps
  \/ RedUnlinkPdf
  \/ RunPs2pdf
  \/ LinEnter
  \/ RunQpdf
  \/ LinSwap
  \/ Finalize

Spec == Init /\ [][Next]_vars

\* ---------------------------------------------------------------- helpers
Terminated == pc = "exited"

Last(s) == s[Len(s)]

Prints(tr) == SelectSeq(tr, IsPrint)

NoArtifactFile(f) == ~IsFile(f, PS) /\ ~IsFile(f, PDF)

TypeOK ==
  /\ cfg \in ConfigAll
  /\ pc \in {"start", "lilypond", "chmod", "pdfred", "pdf2ps", "red_unlink",
             "ps2pdf", "linearize", "qpdf", "lin_swap", "finalize", "exited"}
  /\ exit_status \in {0, 1}
  /\ \A p \in Paths : fs[p].kind \in {"none", "file", "dir"}

HasLine(tr, l) == \E i \in 1..Len(tr) : tr[i] = l

CallPcs == {"lilypond", "pdf2ps", "ps2pdf", "qpdf"}

\* ------------------------------------------------------------------ claims

\* C1: on every exit path with a non-zero status (gated failure, launch
\* error of any stage, any other fatal error in run()) neither artifact file
\* exists when the process terminates: terminal => status 0 or no artifact.
C1_FailureLeavesNoArtifact ==
  Terminated => (exit_status = 0 \/ NoArtifactFile(fs))

\* C2: a call of system_check_output whose child ran takes the failure path
\* (captured output printed, artifacts deleted, exit 1) exactly when
\* do_debug, or a non-zero status, or stop_on_output with a non-empty stdout
\* or stderr; otherwise it returns, prints nothing and leaves the artifacts
\* as the child left them.
C2_GateIffPredicate ==
  [][(pc \in CallPcs /\ last'.started) =>
       LET o == last'
           fail == cfg["do_debug"] \/ o.status # 0
                     \/ (cfg["stop_on_output"] /\ (o.out # "" \/ o.err # ""))
           child == ChildWrites(fs, o.cmd, o.wrote)
       IN /\ (o.result = "exit") <=> fail
          /\ (o.result = "return") <=> ~fail
          /\ fail =>
               /\ pc' = "exited" /\ exit_status' = 1
               /\ NoArtifactFile(fs')
               /\ HasLine(trace', Line("rc", "", o.status))
               /\ HasLine(trace', Line("cmd", o.cmd, 0))
               /\ (o.out # "" => HasLine(trace', Line("stdout", o.out, 0)))
               /\ (o.err # "" => HasLine(trace', Line("stderr", o.err, 0)))
          /\ ~fail =>
               /\ pc' # "exited"
               /\ Prints(trace') = Prints(trace)
               /\ \A p \in Artifacts : fs'[p] = child[p]]_vars

\* C2 witness: stop_on_output set, debug off, a child that exited 0 but
\* wrote to stdout after producing an artifact; the run ended as failed.
C2_Witness ==
  /\ Terminated /\ how = "gate"
  /\ cfg["stop_on_output"] /\ ~cfg["do_debug"]
  /\ last.started /\ last.status = 0 /\ last.out # "" /\ last.wrote # {}
  /\ NoArtifactFile(fs)

\* C3: a stage command that was launched and exited non-zero ends the run:
\* both artifacts absent, exit status 1, and the diagnostics hold the line
\* with the child's status and the line naming the command.
C3_NonZeroExitCleansAndReports ==
  (last.started /\ last.status # 0) =>
    /\ Terminated /\ exit_status = 1
    /\ NoArtifactFile(fs)
    /\ HasLine(trace, Line("rc", "", last.status))
    /\ HasLine(trace, Line("cmd", last.cmd, 0))

\* C3 witness: ps2pdf wrote the pdf and exited with the largest status
C3_Witness ==
  /\ Terminated /\ last.cmd = "ps2pdf" /\ last.started
  /\ last.status = MaxStatus /\ last.wrote = {PDF}
  /\ HasLine(trace, Line("unlink", PDF, 0))
  /\ HasLine(trace, Line("rc", "", MaxStatus))

\* every artifact that is a regular file has mode 0444
ReadOnlyFile(f, p) == IsFile(f, p) /\ f[p].mode = ReadOnly

\* C4 as stated: when every command the pipeline ran exited 0 without
\* output and debug is off, the process ends with status 0 and both
\* artifacts exist with mode 0444.
C4_CleanRunLeavesBothReadOnly ==
  (Terminated /\ ~cfg["do_debug"] /\ clean) =>
    /\ exit_status = 0
    /\ ReadOnlyFile(fs, PS)
    /\ ReadOnlyFile(fs, PDF)

\* the premise of C4 as amended: debug off, the pdf requested, no artifact
\* path occupied by something that is not a regular file, every command
\* started, exited 0 silently and wrote exactly the files asked of it
C4_Premise ==
  /\ ~cfg["do_debug"] /\ cfg["do_pdf"]
  /\ clean /\ produced
  /\ \A p \in Artifacts : fs[p].kind # "dir"

\* C4 amended: under C4_Premise the run ends with status 0, the pdf exists
\* with mode 0444, and the ps exists with mode 0444 exactly when do_ps is on
\* and unlink_ps is off (it is absent otherwise); with the default flags the
\* pdf is the temporary file that qpdf wrote.
C4_CleanProducingRunSucceeds ==
  (Terminated /\ C4_Premise) =>
    /\ exit_status = 0
    /\ ReadOnlyFile(fs, PDF)
    /\ IF cfg["do_ps"] /\ ~cfg["unlink_ps"]
         THEN ReadOnlyFile(fs, PS)
         ELSE fs[PS] = NoFile
    /\ (cfg = Defaults =>
          /\ ReadOnlyFile(fs, PS)
          /\ fs[PDF].origin = TmpLin /\ fs[PDF].content = "qpdf")

\* C4 witness: the default flags, stale files from an earlier run, all
\* commands clean and producing; the run is over
C4_Witness ==
  /\ Terminated /\ C4_Premise /\ cfg = Defaults
  /\ last.cmd = "qpdf" /\ exit_status = 0
  /\ HasLine(trace, Line("unlink", PS, 0))

\* C5: with do_debug the first gated run takes the failure path even for a
\* child that exited 0 silently: the run never gets past the engine stage,
\* ends with status 1 and no artifact, and no post-processing command is
\* launched.
C5_DebugAlwaysFails ==
  cfg["do_debug"] =>
    /\ pc \in {"start", "lilypond", "exited"}
    /\ last.cmd \in {"", "lilypond"}
    /\ (last.started => last.result = "exit")
    /\ \A i \in 1..Len(trace) :
         trace[i].kind = "launch" => trace[i].text = "lilypond"
    /\ Terminated => (exit_status = 1 /\ NoArtifactFile(fs))

\* C5 witness: debug on, the engine exited 0 with empty stdout and stderr
\* after writing both files, and the run is over
C5_Witness ==
  /\ cfg["do_debug"] /\ Terminated
  /\ last.started /\ last.status = 0 /\ last.out = "" /\ last.err = ""
  /\ last.wrote = {PS, PDF}

\* C6: when a child of any stage cannot be started at all, the artifacts
\* are deleted and the process exits with status 1.
C6_LaunchFailureCleans ==
  (Terminated /\ last.cmd # "" /\ ~last.started) =>
    (exit_status = 1 /\ NoArtifactFile(fs))

\* C7: when the linearization stage has run to its end (do_qpdf set, qpdf
\* passed the gate), the pdf path holds the temporary file with what qpdf
\* wrote into it, and nothing is left at the temporary path.
C7_LinearizationSwapsTemp ==
  (cfg["do_qpdf"] /\ (pc = "finalize" \/ (Terminated /\ how = "normal"))) =>
    /\ last.cmd = "qpdf" /\ last.result = "return"
    /\ IsFile(fs, PDF)
    /\ fs[PDF].origin = TmpLin
    /\ fs[PDF].content = (IF TmpLin \in last.wrote THEN "qpdf" ELSE "")
    /\ fs[TmpLin] = NoFile

\* C7 witness: the swap has just happened and qpdf had written the
\* temporary file, the pdf before the swap being the engine's
C7_Witness ==
  /\ pc = "finalize" /\ cfg["do_qpdf"] /\ ~cfg["do_pdfred"]
  /\ TmpLin \in last.wrote
  /\ trace[Len(trace)] = Line("move", TmpLin, 0)
  /\ trace[Len(trace) - 1] = Line("unlink", PDF, 0)

\* C8: when the size-reduction stage has run to its end (do_pdfred set,
\* pdf2ps and ps2pdf passed the gate), the pdf path holds exactly what
\* ps2pdf wrote there, the original pdf having been unlinked between the two
\* commands, and the intermediate file is gone; the intermediate is also
\* gone when either command failed the gate.
C8_ReductionRegeneratesPdf ==
  /\ pc = "ps2pdf" =>
       /\ last.cmd = "pdf2ps" /\ last.result = "return"
       /\ fs[PDF] = NoFile
       /\ trace[Len(trace)] = Line("unlink", PDF, 0)
  /\ (cfg["do_pdfred"] /\ pc = "linearize") =>
       /\ last.cmd = "ps2pdf" /\ last.result = "return"
       /\ fs[PDF] = (IF PDF \in last.wrote THEN MkFile("ps2pdf", ModeNew, PDF)
                                            ELSE NoFile)
       /\ fs[TmpRed] = NoFile
  /\ (Terminated /\ last.cmd \in {"pdf2ps", "ps2pdf"} /\ last.result = "exit") =>
       fs[TmpRed] = NoFile

\* C8 witness: the stage is over, both commands wrote their output
C8_Witness ==
  /\ pc = "linearize" /\ cfg["do_pdfred"] /\ produced
  /\ PDF \in last.wrote
  /\ HasLine(trace, Line("unlink", TmpRed, 0))

\* C9: from every filesystem state the cleanup raises nothing, leaves no
\* regular file at the ps and pdf paths and leaves every other path as it
\* was; a second cleanup right after it raises nothing, unlinks nothing and
\* changes nothing.
C9_CleanupIdempotent ==
  LET r1 == RemoveOutputs(fs)
      r2 == RemoveOutputs(r1.fs)
  IN /\ ~r1.err
     /\ NoArtifactFile(r1.fs)
     /\ \A p \in Paths : (p \notin Artifacts \/ ~IsFile(fs, p)) => r1.fs[p] = fs[p]
     /\ Len(r1.trace) = Cardinality({p \in Artifacts : IsFile(fs, p)})
     /\ ~r2.err
     /\ r2.fs = r1.fs
     /\ r2.trace = <<>>

\* C9 witness: the cleanup of a gated qpdf failure has just removed the ps
\* and the pdf while the temporary file of the stage was on disk
C9_Witness ==
  /\ Terminated /\ last.cmd = "qpdf" /\ last.result = "exit"
  /\ IsFile(fs, TmpLin)
  /\ trace[Len(trace) - 1] = Line("unlink", PDF, 0)
  /\ trace[Len(trace) - 2] = Line("unlink", PS, 0)
  /\ NoArtifactFile(fs)

\* C10: on every path no temporary file made by the run exists when the
\* process terminates.
C10_NoTempFileAtExit ==
  Terminated => (fs[TmpRed] = NoFile /\ fs[TmpLin] = NoFile)

\* the commands launched so far, in order
Launched(tr) ==
  LET l == SelectSeq(tr, LAMBDA e : e.kind = "launch")
  IN [i \in 1..Len(l) |-> l[i].text]

\* C11: when launching the engine raises an OS-level error the driver
\* deletes the artifacts, prints its report line and exits with status 1;
\* the final state (no artifact, exit 1, no later stage run) is the one of a
\* gated failure of the engine.
C11_EngineLaunchErrorCleansAndExits ==
  /\ (last.cmd = "lilypond" /\ ~last.started) =>
       /\ Terminated /\ exit_status = 1 /\ how = "caught"
       /\ NoArtifactFile(fs)
       /\ Launched(trace) = <<>>
       /\ trace[Len(trace) - 1] = Line("exiting", "", 0)
       /\ trace[Len(trace)] = Line("exit", "caught", 1)
  /\ (last.cmd = "lilypond" /\ last.result = "exit") =>
       /\ Terminated /\ exit_status = 1 /\ how = "gate"
       /\ NoArtifactFile(fs)
       /\ Launched(trace) = <<"lilypond">>

\* C11 witness: both artifacts were left by an earlier run, the engine
\* could not be started and the run is over
C11_Witness ==
  /\ Terminated /\ last.cmd = "lilypond" /\ ~last.started
  /\ HasLine(trace, Line("unlink", PS, 0))
  /\ HasLine(trace, Line("unlink", PDF, 0))
  /\ HasLine(trace, Line("exiting", "", 0))

\* the place of a command in the pipeline
Rank(cmd) ==
  IF cmd = "lilypond" THEN 1
  ELSE IF cmd = "pdf2ps" THEN 2
  ELSE IF cmd = "ps2pdf" THEN 3
  ELSE 4

\* the lines that only a failure prints
FailureMarks == {"rc", "traceback", "exiting"}

\* what may follow a failure: the dump of the captured output and the
\* report lines, the removal of files, the end of the process
AfterFailureKinds ==
  {"stdout_label", "stdout", "stderr_label", "stderr", "rc", "cmd",
   "traceback", "exiting", "unlink", "exit"}

\* the events a step appends to the trace
Added == SubSeq(trace', Len(trace) + 1, Len(trace'))

\* the files a failing step may remove: the two artifacts, and inside the
\* reduction stage the temporary file of its with block
MayRemove ==
  Artifacts \cup (IF pc \in {"pdf2ps", "red_unlink", "ps2pdf"} THEN {TmpRed} ELSE {})

C12_InOrder ==
  LET l == Launched(trace)
  IN \A i, j \in 1..Len(l) : i < j => Rank(l[i]) < Rank(l[j])

C12_FailStop ==
  /\ last.result \in {"exit", "oserror"} => (Terminated /\ exit_status = 1)
  /\ \A i \in 1..Len(trace) :
       trace[i].kind \in FailureMarks =>
         /\ Terminated /\ exit_status = 1
         /\ \A j \in (i + 1)..Len(trace) : trace[j].kind \in AfterFailureKinds

C12_FailingStep ==
  (pc' = "exited" /\ exit_status' = 1) =>
    \A i \in 1..Len(Added) :
      /\ Added[i].kind \in AfterFailureKinds =>
           \A j \in (i + 1)..Len(Added) : Added[j].kind \in AfterFailureKinds
      /\ Added[i].kind = "unlink" => Added[i].text \in MayRemove

\* C12: the external commands are launched in the order lilypond, pdf2ps,
\* ps2pdf, qpdf, each at most once; a failure (gated or OS-level) ends the
\* run in the step it happens in, and after it no command is launched, no
\* mode is changed, no temporary file is made or moved: only diagnostics are
\* printed, files are removed (the artifacts, and the reduction stage's own
\* temporary file) and the process exits; nothing happens after the exit.
C12_LinearNoRetry ==
  /\ [](C12_InOrder /\ C12_FailStop)
  /\ [][pc # "exited" /\ C12_FailingStep]_vars

\* C12 witness: all four commands were launched, in order, the last one
\* failed the gate and the run is over
C12_Witness ==
  /\ Terminated /\ exit_status = 1 /\ how = "gate"
  /\ Launched(trace) = <<"lilypond", "pdf2ps", "ps2pdf", "qpdf">>
  /\ last.cmd = "qpdf" /\ last.status # 0

\* C13: on a gated failure the step's events are, in this order: the stdout
\* label and text (only if stdout is non-empty), the stderr label and text
\* (only if stderr is non-empty), the exit status, the command line - the
\* last two always - then the removal of the artifacts that exist, then the
\* exit with status 1.
C13_GatedFailureOrder ==
  [][(pc \in CallPcs /\ last'.result = "exit") =>
       LET o == last'
           child == ChildWrites(fs, o.cmd, o.wrote)
           before == (IF cfg["do_debug"] THEN <<Line("running", o.cmd, 0)>> ELSE <<>>)
                       \o <<Line("launch", o.cmd, 0)>>
           dump == (IF o.out # ""
                      THEN <<Line("stdout_label", "", 0), Line("stdout", o.out, 0)>>
                      ELSE <<>>)
                   \o (IF o.err # ""
                         THEN <<Line("stderr_label", "", 0), Line("stderr", o.err, 0)>>
                         ELSE <<>>)
                   \o <<Line("rc", "", o.status), Line("cmd", o.cmd, 0)>>
           removal == (IF IsFile(child, PS) THEN <<Line("unlink", PS, 0)>> ELSE <<>>)
                      \o (IF IsFile(child, PDF) THEN <<Line("unlink", PDF, 0)>> ELSE <<>>)
           unwind == IF pc \in {"pdf2ps", "ps2pdf"}
                       THEN <<Line("unlink", TmpRed, 0)>> ELSE <<>>
       IN /\ Added = before \o dump \o removal \o unwind \o <<Line("exit", "gate", 1)>>
          /\ pc' = "exited" /\ exit_status' = 1
          /\ NoArtifactFile(fs')]_vars

\* C13 witness: the engine wrote both artifacts and text on both streams and
\* failed the gate: both dumps, both removals
C13_Witness ==
  /\ Terminated /\ how = "gate" /\ last.cmd = "lilypond"
  /\ last.out # "" /\ last.err # "" /\ last.wrote = {PS, PDF}
  /\ trace[Len(trace) - 1] = Line("unlink", PDF, 0)
  /\ trace[Len(trace) - 3] = Line("cmd", "lilypond", 0)

\* the run is past the engine stage and has not failed
PastEngine == pc \in {"pdfred", "linearize", "finalize"} \/ (Terminated /\ how = "normal")

\* C14: pdf2ps and ps2pdf are launched (and their temporary file made) only
\* if do_pdfred is set, qpdf (and its temporary file) only if do_qpdf is
\* set; with both flags off, after the engine stage no command other than
\* the engine has been launched, no temporary file exists or was made, and
\* the pdf is the one the engine left, never unlinked or replaced, with at
\* most its mode changed.
C14_OptionalStagesGated ==
  /\ \A i \in 1..Len(trace) :
       /\ (trace[i].kind = "launch" /\ trace[i].text \in {"pdf2ps", "ps2pdf"})
            => cfg["do_pdfred"]
       /\ (trace[i].kind = "launch" /\ trace[i].text = "qpdf") => cfg["do_qpdf"]
       /\ (trace[i].kind = "mktemp" /\ trace[i].text = TmpRed) => cfg["do_pdfred"]
       /\ (trace[i].kind = "mktemp" /\ trace[i].text = TmpLin) => cfg["do_qpdf"]
  /\ pc \in {"pdf2ps", "red_unlink", "ps2pdf"} => cfg["do_pdfred"]
  /\ pc \in {"qpdf", "lin_swap"} => cfg["do_qpdf"]
  /\ (~cfg["do_pdfred"] /\ ~cfg["do_qpdf"] /\ PastEngine) =>
       /\ Launched(trace) = <<"lilypond">>
       /\ last.cmd = "lilypond"
       /\ fs[TmpRed] = NoFile /\ fs[TmpLin] = NoFile
       /\ \A i \in 1..Len(trace) :
            /\ trace[i].kind \notin {"mktemp", "move"}
            /\ trace[i] = Line("launch", "lilypond", 0) =>
                 \A j \in (i + 1)..Len(trace) : trace[j].kind = "chmod"
                                                  \/ trace[j].kind = "exit"
                                                  \/ trace[j] = Line("unlink", PS, 0)
       /\ LET left == IF fs[PDF].kind = "dir" THEN Dir
                      ELSE IF PDF \in last.wrote THEN MkFile("lilypond", ModeNew, PDF)
                      ELSE NoFile
          IN /\ fs[PDF].kind = left.kind
             /\ fs[PDF].content = left.content
             /\ fs[PDF].origin = left.origin
             /\ fs[PDF].mode \in {left.mode, ReadOnly}

\* C14 witness: both optional stages off, the engine wrote the pdf, the run
\* ended normally with the engine's pdf read-only
C14_Witness ==
  /\ ~cfg["do_pdfred"] /\ ~cfg["do_qpdf"]
  /\ Terminated /\ how = "normal"
  /\ PDF \in last.wrote
  /\ fs[PDF] = MkFile("lilypond", ReadOnly, PDF)

\* C15: in every terminal state with exit status 0 the ps is not there if
\* unlink_ps is set and otherwise, if it is there, has mode 0444; the pdf,
\* if it is there, has mode 0444 - also when it is the temporary file moved
\* in by the linearization stage or the file regenerated by ps2pdf.
C15_FinalizationReadOnly ==
  (Terminated /\ exit_status = 0) =>
    /\ how = "normal"
    /\ cfg["unlink_ps"] => ~IsFile(fs, PS)
    /\ (~cfg["unlink_ps"] /\ IsFile(fs, PS)) => fs[PS].mode = ReadOnly
    /\ IsFile(fs, PDF) => fs[PDF].mode = ReadOnly

\* C15 witness: unlink_ps set, the engine wrote the ps, the pdf went through
\* the reduction and the linearization stage, the run ended with status 0
C15_Witness ==
  /\ Terminated /\ exit_status = 0
  /\ cfg["unlink_ps"] /\ cfg["do_pdfred"] /\ cfg["do_qpdf"]
  /\ HasLine(trace, Line("unlink", PS, 0))
  /\ trace[Len(trace) - 2] = Line("unlink", PS, 0)
  /\ fs[PDF].origin = TmpLin /\ fs[PDF].mode = ReadOnly

\* C16: once the pre-clean has run, and so when the process terminates, a
\* regular file at the ps or pdf path is never one that was there before the
\* run: it was created during the run, by the engine, by ps2pdf or as the
\* linearization stage's temporary file.
C16_NoStaleArtifact ==
  pc # "start" =>
    \A p \in Artifacts :
      IsFile(fs, p) =>
        /\ fs[p].origin # "prior"
        /\ fs[p].content # "stale"
        /\ fs[p].origin \in {PS, PDF, TmpLin}
        /\ fs[p].content \in {"lilypond", "ps2pdf", "qpdf", ""}

\* C16 witness: do_ps and do_pdf off, stale files at both paths before the
\* run, an engine that wrote nothing; the run succeeded and both are gone
C16_Witness ==
  /\ Terminated /\ exit_status = 0
  /\ ~cfg["do_ps"] /\ ~cfg["do_pdf"]
  /\ trace[1] = Line("unlink", PS, 0)
  /\ trace[2] = Line("unlink", PDF, 0)
  /\ last.wrote = {}
  /\ fs[PS] = NoFile /\ fs[PDF] = NoFile

\* a requested artifact is not there when the results are chmod-ed
RequestedMissing ==
  \/ cfg["do_ps"] /\ fs[PS].kind = "none"
  \/ cfg["do_pdf"] /\ fs[PDF].kind = "none"

\* C17: when the engine has passed the gate and a requested artifact is not
\* there, the chmod step fails with an OS error that the handler of the
\* engine's launch errors catches: the artifacts that exist are deleted, the
\* report line is printed, the process exits with status 1 and no
\* post-processing command is launched.
C17_MissingArtifactFailsRun ==
  /\ [](pc = "chmod" => (last.cmd = "lilypond" /\ last.result = "return"))
  /\ [][(pc = "chmod" /\ RequestedMissing) =>
          /\ pc' = "exited" /\ exit_status' = 1 /\ how' = "caught"
          /\ NoArtifactFile(fs')
          /\ \A p \in Paths : ~IsFile(fs, p) => fs'[p].kind = fs[p].kind
          /\ Launched(trace') = <<"lilypond">>
          /\ \A p \in Artifacts : IsFile(fs, p) => HasLine(Added, Line("unlink", p, 0))
          /\ Added[Len(Added) - 1] = Line("exiting", "", 0)
          /\ Added[Len(Added)] = Line("exit", "caught", 1)]_vars

\* C17 witness: both artifacts requested, the engine passed the gate having
\* written only the ps; the ps was chmod-ed, the chmod of the pdf failed,
\* the ps was deleted and the run ended with status 1
C17_Witness ==
  /\ Terminated /\ how = "caught" /\ exit_status = 1
  /\ cfg["do_ps"] /\ cfg["do_pdf"]
  /\ last.started /\ last.result = "return" /\ last.wrote = {PS}
  /\ trace[Len(trace) - 2] = Line("unlink", PS, 0)
  /\ fs[PS] = NoFile

\* every child terminates and the driver is scheduled: a step that can be
\* taken is eventually taken
FairSpec == Spec /\ WF_vars(Next)

\* the place of a program point in run()
PcRank(l) ==
  CASE l = "start" -> 0
    [] l = "lilypond" -> 1
    [] l = "chmod" -> 2
    [] l = "pdfred" -> 3
    [] l = "pdf2ps" -> 4
    [] l = "red_unlink" -> 5
    [] l = "ps2pdf" -> 6
    [] l = "linearize" -> 7
    [] l = "qpdf" -> 8
    [] l = "lin_swap" -> 9
    [] l = "finalize" -> 10
    [] l = "exited" -> 11

\* C18: every run reaches a terminal state, having launched at most four
\* children; the driver only moves forward through run(), it has no loop
\* and no retry.
C18_Terminates ==
  /\ <>Terminated
  /\ [](Len(Launched(trace)) <= 4 /\ (Terminated => exit_status \in {0, 1}))
  /\ [][PcRank(pc') > PcRank(pc)]_vars

\* C18 witness: a run that launched all four children and ended normally
C18_Witness ==
  /\ Terminated /\ exit_status = 0
  /\ Len(Launched(trace)) = 4

====
